---- MODULE Spec2Model ----
(***************************************************************************)
(* The recording state machine of useReactMediaRecorder                    *)
(* (src/src/components/MediaRecord.tsx, lines 30-118) together with the    *)
(* host objects it drives: the getUserMedia promise, the MediaStream       *)
(* tracks and the MediaRecorder with its dataavailable / stop events.      *)
(*                                                                         *)
(* Every call of startRecording is numbered 1, 2, ... in call order; the   *)
(* MediaStream and the MediaRecorder created when call i is granted carry  *)
(* the same number i.  0 stands for a null ref.                            *)
(***************************************************************************)
EXTENDS Integers, Sequences, FiniteSets, TLC

\* ------------------------------------------------------------------ bounds
\* number of startRecording calls in one behaviour
MaxStarts == 2
\* length of the chunk buffer at which the devices stop emitting
MaxChunks == 2
Ids == 1..MaxStarts

\* ------------------------------------------------------------- host values
\* payloads a dataavailable event can carry (event.data), as byte strings
FragData == {<<1>>, <<2, 3>>}

\* rejections of navigator.mediaDevices.getUserMedia
AccessErrors ==
  { [dom |-> TRUE,  name |-> "NotAllowedError"],
    [dom |-> TRUE,  name |-> "NotFoundError"],
    [dom |-> FALSE, name |-> "TypeError"] }

NoError == [dom |-> FALSE, name |-> ""]

VARIABLES
  status,            \* useState<RecordingStatus>
  mediaBlobUrl,      \* useState<string | null>: 0 is null, k the URL of the
                     \* k-th blob given to URL.createObjectURL
  mediaRecorderRef,  \* mediaRecorderRef.current: 0 is null
  audioChunksRef,    \* audioChunksRef.current
  streamRef,         \* streamRef.current: 0 is null
  attempt,           \* position of each startRecording call
  recState,          \* MediaRecorder.state of recorder i ("none": not constructed)
  stopQueued,        \* recorder i has its final dataavailable/stop task queued
  tracks,            \* MediaStreamTrack.readyState of the tracks of stream i
  onStopCount,       \* number of onStop(blob) invocations
  sinceClear,        \* history: bytes delivered by dataavailable since the last
                     \* onstop handler run or reset()
  stale,             \* history: stopRecording()/reset() was called while call i
                     \* was awaiting its grant
  abandoned,         \* history: reset() was called after call i and before the
                     \* stop event of its recorder was handled
  held,              \* history, from the stopRecording() that stopped recorder
                     \* i in status paused with chunks in the buffer until the
                     \* stop event of i: "kept" while every step has left the
                     \* buffer's chunks in place, "lost" once one has not;
                     \* "none" otherwise
  last               \* history: the step just taken

vars == << status, mediaBlobUrl, mediaRecorderRef, audioChunksRef, streamRef,
           attempt, recState, stopQueued, tracks, onStopCount,
           sinceClear, stale, abandoned, held, last >>

host == << attempt, recState, stopQueued, tracks >>

\* the record of a step: the operation, the status it started from and the
\* call or recorder it belongs to; the other fields are filled in by the steps
\* they concern (the rejection handled, an exception ending the handler, the
\* blob handed to onStop with the bytes delivered before it, the history of
\* the call that the step resolves or completes, and track.stop() being
\* called on tracks that had ended already)
Plain(op, id) ==
  [op |-> op, from |-> status, id |-> id, err |-> NoError, threw |-> FALSE,
   blob |-> <<>>, log |-> <<>>, stale |-> FALSE, abandoned |-> FALSE,
   held |-> "none", reStopped |-> FALSE]

\* ------------------------------------------------------------ pure helpers
\* new Blob(parts): the bytes of the parts, in order
RECURSIVE BlobBytes(_)
BlobBytes(parts) ==
  IF parts = <<>> THEN <<>>
  ELSE parts[1].data \o BlobBytes(Tail(parts))

\* a buffer that takes each new chunk at its front
PushFront(chunks, chunk) == << chunk >> \o chunks

\* Array.prototype.push
Push(chunks, chunk) == Append(chunks, chunk)

NewBlob(parts) ==
  [bytes |-> BlobBytes(parts),
   srcs  |-> {parts[k].src : k \in 1..Len(parts)}]

\* URL.createObjectURL(blob): a URL no earlier call returned; one is made per
\* onstop handler run
CreateObjectURL == onStopCount + 1

\* a catch block that reports every rejection as a refusal
CatchStatusAlwaysDenied(error) == "permission_denied"

\* the status chosen by the catch block of startRecording
CatchStatus(error) ==
  IF error.dom /\ error.name = "NotAllowedError"
  THEN "permission_denied"
  ELSE "idle"

Init ==
  /\ status = "idle"
  /\ mediaBlobUrl = 0
  /\ mediaRecorderRef = 0
  /\ audioChunksRef = <<>>
  /\ streamRef = 0
  /\ attempt = [i \in Ids |-> "unused"]
  /\ recState = [i \in Ids |-> "none"]
  /\ stopQueued = [i \in Ids |-> FALSE]
  /\ tracks = [i \in Ids |-> "none"]
  /\ onStopCount = 0
  /\ sinceClear = <<>>
  /\ stale = [i \in Ids |-> FALSE]
  /\ abandoned = [i \in Ids |-> FALSE]
  /\ held = [i \in Ids |-> "none"]
  /\ last = Plain("init", 0)

\* sequence a is an initial part of sequence b
IsPrefix(a, b) == Len(a) <= Len(b) /\ SubSeq(b, 1, Len(a)) = a

\* held after a step that changes the chunk buffer
Carry ==
  [i \in Ids |->
     IF held[i] = "kept" /\ ~IsPrefix(audioChunksRef, audioChunksRef')
     THEN "lost"
     ELSE held[i]]

\* call i has been made and the stop event of its recorder is still to come
SessionOpen(i) ==
  \/ attempt[i] = "pending"
  \/ recState[i] \in {"recording", "paused"}
  \/ stopQueued[i]

\* -------------------------------------------------------------- the hook
\* a reset() that leaves the chunk buffer as it is
resetKeepsChunks ==
  /\ status' = "idle"
  /\ mediaBlobUrl' = 0
  /\ stale' = [i \in Ids |-> stale[i] \/ attempt[i] = "pending"]
  /\ abandoned' = [i \in Ids |-> abandoned[i] \/ SessionOpen(i)]
  /\ last' = Plain("reset", 0)
  /\ UNCHANGED << mediaRecorderRef, audioChunksRef, sinceClear, streamRef,
                  host, onStopCount, held >>

\* reset()
reset ==
  /\ status' = "idle"
  /\ mediaBlobUrl' = 0
  /\ audioChunksRef' = <<>>
  /\ sinceClear' = <<>>
  /\ stale' = [i \in Ids |-> stale[i] \/ attempt[i] = "pending"]
  /\ abandoned' = [i \in Ids |-> abandoned[i] \/ SessionOpen(i)]
  /\ last' = Plain("reset", 0)
  /\ held' = Carry
  /\ UNCHANGED << mediaRecorderRef, streamRef, host, onStopCount >>

\* startRecording(), up to the await of getUserMedia
startRecording ==
  /\ \E i \in Ids :
       /\ attempt[i] = "unused"
       /\ \A j \in Ids : j < i => attempt[j] /= "unused"
       /\ attempt' = [attempt EXCEPT ![i] = "pending"]
       /\ last' = Plain("start", i)
  /\ UNCHANGED << status, mediaBlobUrl, mediaRecorderRef, audioChunksRef,
                  streamRef, recState, stopQueued, tracks, onStopCount,
                  sinceClear, stale, abandoned, held >>

\* a start that empties the chunk buffer for the new take
accessGrantedClearsChunks(i) ==
  /\ attempt[i] = "pending"
  /\ attempt' = [attempt EXCEPT ![i] = "granted"]
  /\ streamRef' = i
  /\ mediaRecorderRef' = i
  /\ tracks' = [tracks EXCEPT ![i] = "live"]
  /\ recState' = [recState EXCEPT ![i] = "recording"]
  /\ status' = "recording"
  /\ audioChunksRef' = <<>>
  /\ sinceClear' = <<>>
  /\ stale' = [stale EXCEPT ![i] = FALSE]
  /\ last' = [Plain("grant", i) EXCEPT !.stale = stale[i]]
  /\ UNCHANGED << mediaBlobUrl, stopQueued, onStopCount,
                  abandoned, held >>

\* startRecording(), from the resolved await to the end of the try block
accessGranted(i) ==
  /\ attempt[i] = "pending"
  /\ attempt' = [attempt EXCEPT ![i] = "granted"]
  /\ streamRef' = i
  /\ mediaRecorderRef' = i
  /\ tracks' = [tracks EXCEPT ![i] = "live"]
  /\ recState' = [recState EXCEPT ![i] = "recording"]
  /\ status' = "recording"
  /\ stale' = [stale EXCEPT ![i] = FALSE]
  /\ last' = [Plain("grant", i) EXCEPT !.stale = stale[i]]
  /\ UNCHANGED << mediaBlobUrl, audioChunksRef, stopQueued, onStopCount,
                  sinceClear, abandoned, held >>

\* a catch block that also drops the recorder and stream refs
accessFailedDropsRefs(i, error) ==
  /\ attempt[i] = "pending"
  /\ attempt' = [attempt EXCEPT ![i] = "failed"]
  /\ status' = CatchStatus(error)
  /\ mediaRecorderRef' = 0
  /\ streamRef' = 0
  /\ stale' = [stale EXCEPT ![i] = FALSE]
  /\ abandoned' = [abandoned EXCEPT ![i] = FALSE]
  /\ last' = [Plain("fail", i) EXCEPT !.err = error, !.stale = stale[i]]
  /\ UNCHANGED << mediaBlobUrl, audioChunksRef,
                  recState, stopQueued, tracks, onStopCount,
                  sinceClear, held >>

\* startRecording(), the catch block after a rejected await
accessFailed(i, error) ==
  /\ attempt[i] = "pending"
  /\ attempt' = [attempt EXCEPT ![i] = "failed"]
  /\ status' = CatchStatus(error)
  /\ stale' = [stale EXCEPT ![i] = FALSE]
  /\ abandoned' = [abandoned EXCEPT ![i] = FALSE]
  /\ last' = [Plain("fail", i) EXCEPT !.err = error, !.stale = stale[i]]
  /\ UNCHANGED << mediaBlobUrl, mediaRecorderRef, audioChunksRef, streamRef,
                  recState, stopQueued, tracks, onStopCount,
                  sinceClear, held >>

\* mediaRecorderRef.current.ondataavailable, run for an event of recorder i
ondataavailable(i, data) ==
  /\ recState[i] \in {"recording", "paused"} \/ stopQueued[i]
  /\ Len(audioChunksRef) < MaxChunks
  /\ audioChunksRef' = Push(audioChunksRef, [data |-> data, src |-> i])
  /\ sinceClear' = sinceClear \o data
  /\ held' = Carry
  /\ last' = Plain("data", i)
  /\ UNCHANGED << status, mediaBlobUrl, mediaRecorderRef, streamRef, host,
                  onStopCount, stale, abandoned >>

\* an onstop handler that forgets setStatus("stopped")
onstopKeepsStatus(i) ==
  /\ stopQueued[i]
  /\ stopQueued' = [stopQueued EXCEPT ![i] = FALSE]
  /\ LET audioBlob == NewBlob(audioChunksRef) IN
       /\ mediaBlobUrl' = CreateObjectURL
       /\ last' = [Plain("complete", i) EXCEPT !.blob = << audioBlob >>,
                                                !.log = sinceClear,
                                                !.abandoned = abandoned[i],
                                                !.held = held[i]]
  /\ onStopCount' = onStopCount + 1
  /\ audioChunksRef' = <<>>
  /\ sinceClear' = <<>>
  /\ abandoned' = [abandoned EXCEPT ![i] = FALSE]
  /\ held' = [Carry EXCEPT ![i] = "none"]
  /\ UNCHANGED << status, mediaRecorderRef, streamRef, attempt, recState, tracks,
                  stale >>

\* an onstop handler that leaves the chunks in the buffer
onstopKeepsChunks(i) ==
  /\ stopQueued[i]
  /\ stopQueued' = [stopQueued EXCEPT ![i] = FALSE]
  /\ LET audioBlob == NewBlob(audioChunksRef) IN
       /\ mediaBlobUrl' = CreateObjectURL
       /\ last' = [Plain("complete", i) EXCEPT !.blob = << audioBlob >>,
                                                !.log = sinceClear,
                                                !.abandoned = abandoned[i],
                                                !.held = held[i]]
  /\ onStopCount' = onStopCount + 1
  /\ status' = "stopped"
  /\ abandoned' = [abandoned EXCEPT ![i] = FALSE]
  /\ held' = [Carry EXCEPT ![i] = "none"]
  /\ UNCHANGED << audioChunksRef, sinceClear, mediaRecorderRef, streamRef, attempt, recState, tracks,
                  stale >>

\* mediaRecorderRef.current.onstop, run for the stop event of recorder i
onstop(i) ==
  /\ stopQueued[i]
  /\ stopQueued' = [stopQueued EXCEPT ![i] = FALSE]
  /\ LET audioBlob == NewBlob(audioChunksRef) IN
       /\ mediaBlobUrl' = CreateObjectURL
       /\ last' = [Plain("complete", i) EXCEPT !.blob = << audioBlob >>,
                                                !.log = sinceClear,
                                                !.abandoned = abandoned[i],
                                                !.held = held[i]]
  /\ onStopCount' = onStopCount + 1
  /\ audioChunksRef' = <<>>
  /\ sinceClear' = <<>>
  /\ status' = "stopped"
  /\ abandoned' = [abandoned EXCEPT ![i] = FALSE]
  /\ held' = [Carry EXCEPT ![i] = "none"]
  /\ UNCHANGED << mediaRecorderRef, streamRef, attempt, recState, tracks,
                  stale >>

\* MediaRecorder.stop() of the host: a no-op on an inactive recorder, otherwise
\* the recorder becomes inactive and queues its final dataavailable and stop
RecorderStop(r) ==
  IF recState[r] = "inactive"
  THEN /\ UNCHANGED << recState, stopQueued >>
  ELSE /\ recState' = [recState EXCEPT ![r] = "inactive"]
       /\ stopQueued' = [stopQueued EXCEPT ![r] = TRUE]

\* streamRef.current.getTracks().forEach((track) => track.stop())
ReleaseTracks(s) ==
  tracks' = [tracks EXCEPT ![s] = "ended"]

\* a guard of stopRecording() that forgets the status
StopAcceptedAnyStatus == mediaRecorderRef /= 0

\* the guard of stopRecording()
StopAccepted == mediaRecorderRef /= 0 /\ status \in {"recording", "paused"}

\* stopRecording()
stopRecording ==
  /\ IF StopAccepted
     THEN /\ RecorderStop(mediaRecorderRef)
          /\ IF streamRef /= 0
             THEN ReleaseTracks(streamRef)
             ELSE UNCHANGED tracks
     ELSE UNCHANGED << recState, stopQueued, tracks >>
  /\ stale' = [i \in Ids |-> stale[i] \/ attempt[i] = "pending"]
  /\ held' = IF /\ StopAccepted
                 /\ status = "paused"
                 /\ recState[mediaRecorderRef] /= "inactive"
                 /\ audioChunksRef /= <<>>
              THEN [held EXCEPT ![mediaRecorderRef] = "kept"]
              ELSE held
  /\ last' = [Plain("stop", mediaRecorderRef) EXCEPT
                !.reStopped = /\ StopAccepted
                              /\ streamRef /= 0
                              /\ tracks[streamRef] = "ended"]
  /\ UNCHANGED << status, mediaBlobUrl, mediaRecorderRef, audioChunksRef,
                  streamRef, attempt, onStopCount, sinceClear, abandoned >>

\* the guard of pauseRecording()
PauseAccepted == mediaRecorderRef /= 0 /\ status = "recording"

\* pauseRecording(); MediaRecorder.pause() throws InvalidStateError on an
\* inactive recorder, which ends the handler before setStatus
pauseRecording ==
  /\ IF PauseAccepted /\ recState[mediaRecorderRef] /= "inactive"
     THEN /\ recState' = [recState EXCEPT ![mediaRecorderRef] = "paused"]
          /\ status' = "paused"
     ELSE UNCHANGED << recState, status >>
  /\ last' = [Plain("pause", mediaRecorderRef) EXCEPT
                !.threw = PauseAccepted /\ recState[mediaRecorderRef] = "inactive"]
  /\ UNCHANGED << mediaBlobUrl, mediaRecorderRef, audioChunksRef, streamRef,
                  attempt, stopQueued, tracks, onStopCount,
                  sinceClear, stale, abandoned, held >>

\* the guard of resumeRecording()
ResumeAccepted == mediaRecorderRef /= 0 /\ status = "paused"

\* resumeRecording(); MediaRecorder.resume() throws InvalidStateError on an
\* inactive recorder, which ends the handler before setStatus
resumeRecording ==
  /\ IF ResumeAccepted /\ recState[mediaRecorderRef] /= "inactive"
     THEN /\ recState' = [recState EXCEPT ![mediaRecorderRef] = "recording"]
          /\ status' = "recording"
     ELSE UNCHANGED << recState, status >>
  /\ last' = [Plain("resume", mediaRecorderRef) EXCEPT
                !.threw = ResumeAccepted /\ recState[mediaRecorderRef] = "inactive"]
  /\ UNCHANGED << mediaBlobUrl, mediaRecorderRef, audioChunksRef, streamRef,
                  attempt, stopQueued, tracks, onStopCount,
                  sinceClear, stale, abandoned, held >>

GrantStep == \E i \in Ids : accessGranted(i)
FailStep == \E i \in Ids, error \in AccessErrors : accessFailed(i, error)
DataStep == \E i \in Ids, data \in FragData : ondataavailable(i, data)
CompleteStep == \E i \in Ids : onstop(i)

Next ==
  \/ startRecording
  \/ GrantStep
  \/ FailStep
  \/ DataStep
  \/ CompleteStep
  \/ stopRecording
  \/ pauseRecording
  \/ resumeRecording
  \/ reset

Spec == Init /\ [][Next]_vars

\* the host delivers the stop event of every recorder that was stopped
FairSpec == Spec /\ \A i \in Ids : WF_vars(onstop(i))

\* ------------------------------------------------------------- properties
\* the recorders whose capture is running or suspended
Capturing == {i \in Ids : recState[i] \in {"recording", "paused"}}

\* some capture device or hardware stream is open: tracks that are live, a
\* recorder that captures, or one whose stop event is still to be delivered
DeviceHeld ==
  \E i \in Ids : tracks[i] = "live" \/ i \in Capturing \/ stopQueued[i]

\* stream i belongs to the session the commands act on
OwnedByActiveSession(i) ==
  streamRef = i /\ status \in {"recording", "paused"}

\* C1: the blob built by an onstop handler run (the one given to onStop)
\* holds exactly the bytes that the dataavailable events delivered since the
\* previous onstop handler run or reset(), in their order of arrival.
C1_ArtifactIsConcatenation ==
  last.op = "complete" => last.blob[1].bytes = last.log

\* a blob made of two chunks with different payloads
C1_Witness ==
  /\ last.op = "complete"
  /\ last.blob[1].bytes = <<2, 3, 1>>

\* C2: right after reset(), from whichever status it was called, the status
\* is idle, the chunk buffer is empty and mediaBlobUrl is null.
C2_ResetYieldsIdle ==
  last.op = "reset" =>
    /\ status = "idle"
    /\ audioChunksRef = <<>>
    /\ mediaBlobUrl = 0

\* reset() called with a finished artifact on display
C2_Witness == last.op = "reset" /\ last.from = "stopped"

\* reset() called while chunks are arriving, while paused, and after a refusal
C2_FromRecording ==
  last.op = "reset" /\ last.from = "recording" /\ Capturing /= {}
C2_FromPaused == last.op = "reset" /\ last.from = "paused"
C2_FromDenied == last.op = "reset" /\ last.from = "permission_denied"
C2_FromIdle == last.op = "reset" /\ last.from = "idle"

\* C3: a grant that arrives after stopRecording() or reset() was called
\* during the wait opens no device and does not set the status to recording.
C3_StaleGrantIgnored ==
  (last.op = "grant" /\ last.stale) =>
    /\ status = last.from
    /\ recState[last.id] = "none"
    /\ tracks[last.id] = "none"

\* C4: the stop event of a session that reset() abandoned is ignored: the
\* status is left as it was and no artifact is produced.
C4_CompletionAfterResetIgnored ==
  (last.op = "complete" /\ last.abandoned) =>
    /\ status = last.from
    /\ last.blob = <<>>
    /\ mediaBlobUrl = 0

\* C5: mediaBlobUrl is set exactly when the status is stopped.
C5_ArtifactIffStopped == (mediaBlobUrl /= 0) <=> (status = "stopped")

\* C6: a capture device or stream is open exactly when the status is
\* recording or paused.
C6_DeviceIffActive == DeviceHeld <=> (status \in {"recording", "paused"})

\* C7: the tracks of a stream are stopped once: no stream stays live outside
\* the active session, and none has its tracks stopped a second time.
C7_ReleasedExactlyOnce ==
  /\ ~last.reStopped
  /\ \A i \in Ids : tracks[i] = "live" => OwnedByActiveSession(i)

\* C8: the chunk buffer is empty whenever the status is idle or
\* permission_denied.
C8_BufferEmptyWhenIdle ==
  status \in {"idle", "permission_denied"} => audioChunksRef = <<>>

\* C9: at most one recorder captures at any time.
C9_SingleLiveSession == Cardinality(Capturing) <= 1

\* the rejection is a refusal of permission
PermissionRefused(error) == error.name = "NotAllowedError"

\* C10: after a rejected access request the status is permission_denied for
\* a NotAllowedError and idle for every other rejection, the call has
\* opened no stream and no recorder, and no exception left startRecording.
C10_FailureStatus ==
  last.op = "fail" =>
    /\ status = IF PermissionRefused(last.err)
                THEN "permission_denied"
                ELSE "idle"
    /\ recState[last.id] = "none"
    /\ tracks[last.id] = "none"
    /\ ~last.threw

\* a refusal while an earlier session is recording
C10_Witness ==
  /\ last.op = "fail"
  /\ last.err.name = "NotAllowedError"
  /\ last.from = "recording"

\* a rejection that is no refusal
C10_OtherFailure ==
  /\ last.op = "fail"
  /\ last.err.name = "TypeError"
  /\ last.from = "permission_denied"

\* what the commands can observe or disturb: the status, the chunk buffer,
\* the artifact URL, the refs, and the recorders and tracks of the host
Observable ==
  << status, audioChunksRef, mediaBlobUrl, mediaRecorderRef, streamRef,
     recState, stopQueued, tracks >>

\* C11: pauseRecording() outside recording, resumeRecording() outside paused
\* and stopRecording() outside recording/paused leave the status, the chunk
\* buffer, the artifact and the device as they were.
C11_NoOpOutsideValidStates ==
  [][ ( \/ last'.op = "pause" /\ status /= "recording"
        \/ last'.op = "resume" /\ status /= "paused"
        \/ last'.op = "stop" /\ status \notin {"recording", "paused"} )
      => UNCHANGED Observable ]_vars

\* stopRecording() called in idle while a recorder left behind by reset()
\* still captures
C11_Witness ==
  /\ last.op = "stop"
  /\ last.from = "idle"
  /\ last.id /= 0
  /\ recState[last.id] = "recording"

\* pauseRecording() on a finished take, resumeRecording() while recording
C11_PauseIgnored == last.op = "pause" /\ last.from = "stopped"
C11_ResumeIgnored ==
  last.op = "resume" /\ last.from = "recording" /\ status = "recording"

\* C12: stopRecording() in status paused stops the recorder, and the blob
\* built at that recorder's stop event is not empty and holds every chunk
\* that was in the buffer at the stop, whenever there was one.
C12_StopFromPausedKeepsFragments ==
  /\ (last.op = "stop" /\ last.from = "paused") =>
       (last.id /= 0 /\ recState[last.id] = "inactive")
  /\ (last.op = "complete" /\ last.held /= "none") =>
       (last.held = "kept" /\ last.blob[1].bytes /= <<>>)

\* the same, for a session that no reset() abandoned and that was the only
\* one with a stop event outstanding
C12_UndisturbedSession ==
  /\ (last.op = "stop" /\ last.from = "paused") =>
       (last.id /= 0 /\ recState[last.id] = "inactive")
  /\ (last.op = "complete" /\ last.held /= "none" /\ ~last.abandoned
        /\ onStopCount = 1) =>
       (last.held = "kept" /\ last.blob[1].bytes /= <<>>)

\* a take stopped while paused whose blob holds the chunk received before
C12_StoppedWhilePaused ==
  /\ last.op = "complete"
  /\ last.from = "paused"
  /\ last.held = "kept"
  /\ last.blob[1].bytes /= <<>>

\* C13: only the onstop handler and reset() take chunks out of the buffer:
\* every other step leaves the chunks it found in place and in order.
C13_BufferClearedOnlyByCompleteOrReset ==
  [][ last'.op \notin {"complete", "reset"}
      => IsPrefix(audioChunksRef, audioChunksRef') ]_vars

\* a new recording granted while chunks of an earlier one are in the buffer
C13_Witness == last.op = "grant" /\ audioChunksRef /= <<>>

\* a chunk added behind another, and chunks kept across pause, resume, stop
C13_Appended == last.op = "data" /\ Len(audioChunksRef) = 2
C13_KeptByPause == last.op = "pause" /\ audioChunksRef /= <<>>
C13_KeptByResume == last.op = "resume" /\ audioChunksRef /= <<>>
C13_KeptByStop ==
  last.op = "stop" /\ audioChunksRef /= <<>> /\ stopQueued[last.id]

\* a stop event is outstanding for a session that no reset() has abandoned
PendingFinalize == \E i \in Ids : stopQueued[i] /\ ~abandoned[i]

\* C14: between an accepted stopRecording() and the stop event, pause,
\* resume and a further stop change neither the status nor the device, and
\* the status, unless reset() is called, changes next to stopped.
C14_PendingFinalize ==
  [][ PendingFinalize =>
        /\ last'.op \in {"pause", "resume", "stop"}
             => UNCHANGED << status, recState, stopQueued, tracks >>
        /\ (status' /= status /\ last'.op /= "reset")
             => status' = "stopped" ]_vars

\* the same while no other startRecording() call is unresolved or has opened
\* a device of its own
OnlySession ==
  \E i \in Ids :
    /\ stopQueued[i] /\ ~abandoned[i]
    /\ \A j \in Ids \ {i} : attempt[j] /= "pending" /\ j \notin Capturing
                              /\ ~stopQueued[j]

C14_SingleSession ==
  [][ OnlySession =>
        /\ last'.op \in {"pause", "resume", "stop"}
             => UNCHANGED << status, recState, stopQueued, tracks >>
        /\ (status' /= status /\ last'.op /= "reset")
             => status' = "stopped" ]_vars

\* pauseRecording() ending in InvalidStateError while the stop event is
\* outstanding
C14_PauseWhilePending ==
  last.op = "pause" /\ last.threw /\ stopQueued[last.id]

\* the stop event of recorder i has been handled
Completed(i) ==
  attempt[i] = "granted" /\ recState[i] = "inactive" /\ ~stopQueued[i]

\* C15: once stopRecording() has stopped a recorder and the host delivers
\* its stop event, the status becomes stopped and onStop is called with the
\* blob, once and only once for that recorder.
C15_StopLeadsToStopped ==
  /\ \A i \in Ids :
       stopQueued[i] ~> ( /\ last.op = "complete"
                          /\ last.id = i
                          /\ last.blob /= <<>>
                          /\ status = "stopped" )
  /\ [][ /\ last'.op = "complete" => onStopCount' = onStopCount + 1
         /\ \A i \in Ids :
              Completed(i) =>
                Completed(i)' /\ ~(last'.op = "complete" /\ last'.id = i)
     ]_vars

\* the stop event of a second take, stopped while recording
C15_Witness ==
  /\ last.op = "complete"
  /\ last.from = "recording"
  /\ onStopCount = 2
  /\ status = "stopped"

\* C16: the blob built at the stop event of recorder i is made only of chunks
\* that recorder i emitted.
C16_OwnFragmentsOnly ==
  last.op = "complete" => last.blob[1].srcs \subseteq {last.id}

\* the blob of a second take holding a chunk of the first take's recorder,
\* which reset() had left open
C16_AbandonedDeviceLeaks ==
  /\ last.op = "complete"
  /\ last.id = 2
  /\ 1 \in last.blob[1].srcs
  /\ recState[1] \in {"recording", "paused"}
  /\ abandoned[1]

\* C17: the status turns to stopped only in an onstop handler run, and each
\* run sets mediaBlobUrl to the URL of its blob, calls onStop with that blob
\* once and empties the buffer; onStop has been called as often as stop
\* events have been handled.
C17_StoppedOnlyByCompletion ==
  /\ (status = "stopped" /\ last.from /= "stopped") => last.op = "complete"
  /\ last.op = "complete" =>
       /\ status = "stopped"
       /\ Len(last.blob) = 1
       /\ mediaBlobUrl = onStopCount
       /\ mediaBlobUrl /= 0
       /\ audioChunksRef = <<>>
  /\ onStopCount = Cardinality({i \in Ids : Completed(i)})

\* a stop event handled in status idle, with a chunk in the buffer
C17_Witness ==
  /\ last.op = "complete"
  /\ last.from = "idle"
  /\ last.log /= <<>>
  /\ status = "stopped"

\* C18: a rejected access request changes the status and nothing else: the
\* chunk buffer, mediaBlobUrl and the recorder and stream refs stay.
C18_FailedStartChangesOnlyStatus ==
  [][ last'.op = "fail" =>
        UNCHANGED << audioChunksRef, mediaBlobUrl, mediaRecorderRef,
                     streamRef, recState, stopQueued, tracks >> ]_vars

\* a rejection arriving after a finished take, with its URL and refs set
C18_Witness ==
  /\ last.op = "fail"
  /\ mediaBlobUrl /= 0
  /\ mediaRecorderRef /= 0
  /\ streamRef /= 0
  /\ status /= "stopped"

\* a rejection arriving while chunks are in the buffer
C18_WithChunks == last.op = "fail" /\ audioChunksRef /= <<>>

====
